---- MODULE Spec2Model ----
(***************************************************************************)
(* SublimeLinter-contrib-rustc, linter.py: the Rust linter plugin.         *)
(*                                                                         *)
(* One Rust object (a SublimeLinter Linter) is modelled together with the  *)
(* things it reads: the view's settings, the file system searched by       *)
(* util.find_file, the name of the edited file and the working directory   *)
(* of the editor process.  A lint pass is Rust.run followed by one call of *)
(* Rust.split_match per line of the tool's output.                         *)
(*                                                                         *)
(* Encoding of Python values.  A str is the sequence of its characters,    *)
(* each a one-character TLA+ string, so "" is << >> and 'a/b' is           *)
(* <<"a", "/", "b">>.  None is the one-element sequence <<"None">>, and a  *)
(* word of a command line such as 'cargo' is <<"cargo">>: neither is a     *)
(* sequence of single characters, so neither equals any str.               *)
(***************************************************************************)
EXTENDS Integers, Sequences, FiniteSets, TLC

VARIABLES
    use_cargo,        \* Rust.use_cargo
    use_crate_root,   \* Rust.use_crate_root
    cargo_config,     \* Rust.cargo_config
    crate_root,       \* Rust.crate_root
    tempfile_suffix,  \* Rust.tempfile_suffix
    filename,         \* self.filename, the file being edited
    settings,         \* what self.get_view_settings() returns during the pass
    files,            \* the files that exist during the pass (canonical paths)
    cwd,              \* os.getcwd() of the editor process during the pass
    pc,               \* "idle", "lines" (output being parsed) or "raised"
    ran,              \* what run executed in the current pass
    nlines,           \* output lines handed to split_match in this pass
    line,             \* the last output line handed to split_match
    result            \* what split_match returned for it

vars == <<use_cargo, use_crate_root, cargo_config, crate_root, tempfile_suffix,
          filename, settings, files, cwd, pc, ran, nlines, line, result>>

\* The number of output lines parsed in one pass.
MaxLines == 2

None == <<"None">>

\* The truth value of a str or None: None and '' are false.
Truthy(v) == v # None /\ v # << >>

(***************************************************************************)
(* Character strings used by the model.                                    *)
(***************************************************************************)
Sep == <<"/">>
c_proj == <<"p", "r", "o", "j">>
c_src == <<"s", "r", "c">>
c_lnk == <<"l", "n", "k">>
c_tmp == <<"t", "m", "p">>
c_foo == <<"f", "o", "o", ".", "r", "s">>
c_bar == <<"b", "a", "r", ".", "r", "s">>
c_t == <<"t", ".", "r", "s">>
c_dotdot == <<".", ".">>
MainRs == <<"m", "a", "i", "n", ".", "r", "s">>
LibRs == <<"l", "i", "b", ".", "r", "s">>
CargoToml == <<"C", "a", "r", "g", "o", ".", "t", "o", "m", "l">>

Root == Sep
ProjDir == Sep \o c_proj
SrcDir == ProjDir \o Sep \o c_src
LnkDir == Sep \o c_lnk
TmpDir == Sep \o c_tmp

(***************************************************************************)
(* os.path (posixpath).                                                    *)
(***************************************************************************)
isabs(p) == Len(p) > 0 /\ p[1] = "/"

\* os.path.join(a, b)
join(a, b) ==
    IF isabs(b) THEN b
    ELSE IF a = << >> \/ a[Len(a)] = "/" THEN a \o b
    ELSE a \o Sep \o b

\* p.rfind('/') + 1, counting characters from 1: 0 when p holds no '/'.
RECURSIVE rfind_sep(_, _)
rfind_sep(p, i) ==
    IF i = 0 THEN 0
    ELSE IF p[i] = "/" THEN i
    ELSE rfind_sep(p, i - 1)

AllSep(p) == \A i \in 1..Len(p) : p[i] = "/"

RECURSIVE rstrip_sep(_)
rstrip_sep(p) ==
    IF p # << >> /\ p[Len(p)] = "/" THEN rstrip_sep(SubSeq(p, 1, Len(p) - 1))
    ELSE p

\* os.path.split(p): [head, tail]
split(p) ==
    LET i == rfind_sep(p, Len(p))
        h == SubSeq(p, 1, i)
    IN  [head |-> IF h # << >> /\ ~AllSep(h) THEN rstrip_sep(h) ELSE h,
         tail |-> SubSeq(p, i + 1, Len(p))]

\* os.path.dirname(p)
dirname(p) == split(p).head

\* p.split('/'): the components of p, empty ones included.
RECURSIVE components(_, _, _)
components(p, i, cur) ==
    IF i > Len(p) THEN <<cur>>
    ELSE IF p[i] = "/" THEN <<cur>> \o components(p, i + 1, << >>)
    ELSE components(p, i + 1, Append(cur, p[i]))

\* '/' + '/'.join(comps)
RECURSIVE unsplit(_)
unsplit(comps) ==
    IF comps = << >> THEN << >>
    ELSE Sep \o Head(comps) \o unsplit(Tail(comps))

abs_string(comps) == IF comps = << >> THEN Root ELSE unsplit(comps)

\* The symbolic links of the file system: /lnk -> /proj.
Symlinks == {[link |-> LnkDir, target |-> <<c_proj>>]}

readlink(comps) ==
    IF \E l \in Symlinks : l.link = abs_string(comps)
    THEN (CHOOSE l \in Symlinks : l.link = abs_string(comps)).target
    ELSE comps

\* posixpath._joinrealpath: walk the components, resolving '.', '..' and links.
RECURSIVE joinrealpath(_, _)
joinrealpath(acc, rest) ==
    IF rest = << >> THEN acc
    ELSE LET name == Head(rest)
         IN  IF name = << >> \/ name = <<".">> THEN joinrealpath(acc, Tail(rest))
             ELSE IF name = c_dotdot
                  THEN joinrealpath(IF acc = << >> THEN acc
                                    ELSE SubSeq(acc, 1, Len(acc) - 1), Tail(rest))
             ELSE joinrealpath(readlink(Append(acc, name)), Tail(rest))

\* os.path.realpath(p) in a process whose working directory is wd.
realpath(p, wd) ==
    abs_string(joinrealpath(<< >>, components(join(wd, p), 1, << >>)))

\* os.path.exists(p), for the files the model tracks.
exists(p, fs) == realpath(p, Root) \in fs

(***************************************************************************)
(* SublimeLinter's util.find_file(start_dir, name): climb from start_dir   *)
(* to the root and return the first os.path.join(d, name) that exists.     *)
(***************************************************************************)
RECURSIVE find_file(_, _, _)
find_file(start_dir, name, fs) ==
    LET target == join(start_dir, name)
        up == split(start_dir)
    IN  IF exists(target, fs) THEN target
        ELSE IF up.tail = << >> THEN None
        ELSE find_file(up.head, name, fs)

\* dict.get(key, default)
Get(d, key, default) == IF key \in DOMAIN d THEN d[key] ELSE default

\* Rust.cmd and the two values of Rust.tempfile_suffix.
RustcCmd == << <<"rustc">>, <<"-Z no-trans">> >>
SuffixRs == <<"r", "s">>
SuffixDash == <<"-">>

\* The class attributes: the fields of a Rust object no pass has touched.
ClassDefaults(fname) ==
    [use_cargo |-> FALSE, use_crate_root |-> FALSE, cargo_config |-> None,
     crate_root |-> None, tempfile_suffix |-> SuffixRs, filename |-> fname]

\* A variant of locate_crate_root that looks for lib.rs before main.rs.
locate_crate_root_lib_first(self, view, fs) ==
    LET c0 == Get(view, "crate-root", None)
        c1 == IF ~Truthy(c0) THEN find_file(dirname(self.filename), LibRs, fs) ELSE c0
        c2 == IF ~Truthy(c1) THEN find_file(dirname(self.filename), MainRs, fs) ELSE c1
    IN  c2

(***************************************************************************)
(* Rust.locate_crate_root                                                  *)
(***************************************************************************)
locate_crate_root(self, view, fs) ==
    LET c0 == Get(view, "crate-root", None)
        c1 == IF ~Truthy(c0) THEN find_file(dirname(self.filename), MainRs, fs) ELSE c0
        c2 == IF ~Truthy(c1) THEN find_file(dirname(self.filename), LibRs, fs) ELSE c1
    IN  c2

(***************************************************************************)
(* What run hands to the framework: util.communicate(argv, ...) runs argv; *)
(* self.tmpfile(cmd, code) writes the code to a temporary file named with  *)
(* self.tempfile_suffix and runs cmd on it.                                *)
(***************************************************************************)
communicate(argv) == [call |-> "communicate", argv |-> argv, suffix |-> None]

tmpfile(self, cmd) == [call |-> "tmpfile", argv |-> cmd, suffix |-> self.tempfile_suffix]

NotRun == [call |-> "none", argv |-> << >>, suffix |-> None]

(***************************************************************************)
(* Variants of Rust.run with one slip each: the crate root tried before    *)
(* Cargo; cargo_config assigned only when Cargo.toml is found; the final   *)
(* reset of tempfile_suffix left out.                                      *)
(***************************************************************************)
run_crate_root_first(self, cmd, view, fs) ==
    LET s1 == [self EXCEPT !.use_cargo = Get(view, "use-cargo", FALSE),
                           !.use_crate_root = Get(view, "use-crate-root", FALSE)]
        s2 == IF s1.use_crate_root
              THEN [s1 EXCEPT !.crate_root = locate_crate_root(s1, view, fs)]
              ELSE s1
        s3 == IF s2.use_cargo
              THEN [s2 EXCEPT !.cargo_config =
                                  find_file(dirname(s2.filename), CargoToml, fs)]
              ELSE s2
        s4 == [s3 EXCEPT !.tempfile_suffix = SuffixRs]
    IN  IF s2.use_crate_root /\ Truthy(s2.crate_root)
        THEN [self |-> [s2 EXCEPT !.tempfile_suffix = SuffixDash],
              ret |-> communicate(Append(cmd, s2.crate_root))]
        ELSE IF s3.use_cargo /\ Truthy(s3.cargo_config)
        THEN [self |-> [s3 EXCEPT !.tempfile_suffix = SuffixDash],
              ret |-> communicate(<< <<"cargo">>, <<"build">>, <<"--manifest-path">>,
                                     s3.cargo_config >>)]
        ELSE [self |-> s4, ret |-> tmpfile(s4, cmd)]

run_keeps_cargo_config(self, cmd, view, fs) ==
    LET s1 == [self EXCEPT !.use_cargo = Get(view, "use-cargo", FALSE),
                           !.use_crate_root = Get(view, "use-crate-root", FALSE)]
        found == find_file(dirname(s1.filename), CargoToml, fs)
        s2 == IF s1.use_cargo /\ Truthy(found)
              THEN [s1 EXCEPT !.cargo_config = found]
              ELSE s1
        s3 == IF s2.use_crate_root
              THEN [s2 EXCEPT !.crate_root = locate_crate_root(s2, view, fs)]
              ELSE s2
        s4 == [s3 EXCEPT !.tempfile_suffix = SuffixRs]
    IN  IF s1.use_cargo /\ Truthy(found)
        THEN [self |-> [s2 EXCEPT !.tempfile_suffix = SuffixDash],
              ret |-> communicate(<< <<"cargo">>, <<"build">>, <<"--manifest-path">>,
                                     s2.cargo_config >>)]
        ELSE IF s3.use_crate_root /\ Truthy(s3.crate_root)
        THEN [self |-> [s3 EXCEPT !.tempfile_suffix = SuffixDash],
              ret |-> communicate(Append(cmd, s3.crate_root))]
        ELSE [self |-> s4, ret |-> tmpfile(s4, cmd)]

run_keeps_suffix(self, cmd, view, fs) ==
    LET s1 == [self EXCEPT !.use_cargo = Get(view, "use-cargo", FALSE),
                           !.use_crate_root = Get(view, "use-crate-root", FALSE)]
        s2 == IF s1.use_cargo
              THEN [s1 EXCEPT !.cargo_config =
                                  find_file(dirname(s1.filename), CargoToml, fs)]
              ELSE s1
        s3 == IF s2.use_crate_root
              THEN [s2 EXCEPT !.crate_root = locate_crate_root(s2, view, fs)]
              ELSE s2
    IN  IF s2.use_cargo /\ Truthy(s2.cargo_config)
        THEN [self |-> [s2 EXCEPT !.tempfile_suffix = SuffixDash],
              ret |-> communicate(<< <<"cargo">>, <<"build">>, <<"--manifest-path">>,
                                     s2.cargo_config >>)]
        ELSE IF s3.use_crate_root /\ Truthy(s3.crate_root)
        THEN [self |-> [s3 EXCEPT !.tempfile_suffix = SuffixDash],
              ret |-> communicate(Append(cmd, s3.crate_root))]
        ELSE [self |-> s3, ret |-> tmpfile(s3, cmd)]

(***************************************************************************)
(* Rust.run: the object's fields after the call, and the call it returns.  *)
(***************************************************************************)
run(self, cmd, view, fs) ==
    LET s1 == [self EXCEPT !.use_cargo = Get(view, "use-cargo", FALSE),
                           !.use_crate_root = Get(view, "use-crate-root", FALSE)]
        current_dir == dirname(s1.filename)
        s2 == IF s1.use_cargo
              THEN [s1 EXCEPT !.cargo_config = find_file(current_dir, CargoToml, fs)]
              ELSE s1
        s3 == IF s2.use_crate_root
              THEN [s2 EXCEPT !.crate_root = locate_crate_root(s2, view, fs)]
              ELSE s2
        s4 == [s3 EXCEPT !.tempfile_suffix = SuffixRs]
    IN  IF s2.use_cargo /\ Truthy(s2.cargo_config)
        THEN [self |-> [s2 EXCEPT !.tempfile_suffix = SuffixDash],
              ret |-> communicate(<< <<"cargo">>, <<"build">>, <<"--manifest-path">>,
                                     s2.cargo_config >>)]
        ELSE IF s3.use_crate_root /\ Truthy(s3.crate_root)
        THEN [self |-> [s3 EXCEPT !.tempfile_suffix = SuffixDash],
              ret |-> communicate(Append(cmd, s3.crate_root))]
        ELSE [self |-> s4, ret |-> tmpfile(s4, cmd)]

(***************************************************************************)
(* Rust.is_current_file, in a process whose working directory is wd.       *)
(***************************************************************************)
is_current_file(self, working_dir, matched_file, wd) ==
    LET abs_matched_file == join(working_dir, matched_file)
    IN  realpath(self.filename, wd) = realpath(abs_matched_file, wd)

(***************************************************************************)
(* Rust.regex, applied with re.match to one line of output:                *)
(*   ^(?P<file>.+?):(?P<line>\d+):(?P<col>\d+):\s+\d+:\d+\s                *)
(*   (?:(?P<error>(error|fatal error))|(?P<warning>warning)):\s+           *)
(*   (?P<message>.+)                                                       *)
(* A match is the tuple of its groups <<file, line, col, error, warning,   *)
(* message>>; no match is None.                                            *)
(***************************************************************************)
Digits == {"0", "1", "2", "3", "4", "5", "6", "7", "8", "9"}
Spaces == {" ", "\t"}

kw_error == <<"e", "r", "r", "o", "r">>
kw_fatal == <<"f", "a", "t", "a", "l", " ", "e", "r", "r", "o", "r">>
kw_warning == <<"w", "a", "r", "n", "i", "n", "g">>

\* The first position from i on whose character is not in class (Len(s) + 1 if none).
RECURSIVE span(_, _, _)
span(s, i, class) ==
    IF i <= Len(s) /\ s[i] \in class THEN span(s, i + 1, class) ELSE i

\* Whether the literal lit stands in s at position i.
lit_at(s, i, lit) ==
    i + Len(lit) - 1 <= Len(s) /\ SubSeq(s, i, i + Len(lit) - 1) = lit

is_char(s, i, c) == i <= Len(s) /\ s[i] = c

\* A variant that takes any word for the keyword.
keyword_at_any_word(s, i) ==
    IF lit_at(s, i, kw_error) THEN kw_error
    ELSE IF lit_at(s, i, kw_fatal) THEN kw_fatal
    ELSE IF lit_at(s, i, kw_warning) THEN kw_warning
    ELSE IF i <= Len(s) /\ s[i] \notin Spaces \cup {":"}
    THEN SubSeq(s, i, span(s, i, {"a", "e", "n", "o", "r", "t"}) - 1)
    ELSE None

\* (error|fatal error) or warning at position i: the keyword, or None.
keyword_at(s, i) ==
    IF lit_at(s, i, kw_error) THEN kw_error
    ELSE IF lit_at(s, i, kw_fatal) THEN kw_fatal
    ELSE IF lit_at(s, i, kw_warning) THEN kw_warning
    ELSE None

\* The regex from the ':' that ends the file group, at position i, to the end.
regex_tail(s, i) ==
    LET l1 == i + 1
        l2 == span(s, l1, Digits)          \* (?P<line>\d+)
        c1 == l2 + 1
        c2 == span(s, c1, Digits)          \* (?P<col>\d+)
        w1 == c2 + 1
        w2 == span(s, w1, Spaces)          \* \s+
        e2 == span(s, w2, Digits)          \* \d+
        f1 == e2 + 1
        f2 == span(s, f1, Digits)          \* \d+
        k1 == f2 + 1                       \* after the single \s
        kw == keyword_at(s, k1)
        k2 == k1 + Len(kw)
        m1 == k2 + 1
        m2 == span(s, m1, Spaces)          \* \s+, greedy
        \* (?P<message>.+) needs a character: \s+ gives its last one back.
        m3 == IF m2 > Len(s) /\ m2 - m1 >= 2 THEN m2 - 1 ELSE m2
        ok == /\ is_char(s, i, ":") /\ l2 > l1
              /\ is_char(s, l2, ":") /\ c2 > c1
              /\ is_char(s, c2, ":") /\ w2 > w1
              /\ e2 > w2 /\ is_char(s, e2, ":") /\ f2 > f1
              /\ f2 <= Len(s) /\ s[f2] \in Spaces
              /\ kw # None
              /\ is_char(s, k2, ":") /\ m3 > m1
              /\ m3 <= Len(s)
    IN  IF ok
        THEN <<SubSeq(s, 1, i - 1), SubSeq(s, l1, l2 - 1), SubSeq(s, c1, c2 - 1),
               IF kw = kw_warning THEN None ELSE kw,
               IF kw = kw_warning THEN kw ELSE None,
               SubSeq(s, m3, Len(s))>>
        ELSE None

\* (?P<file>.+?) is lazy: the shortest non-empty prefix the rest matches after.
RECURSIVE regex_from(_, _)
regex_from(s, n) ==
    IF n >= Len(s) THEN None
    ELSE IF regex_tail(s, n + 1) # None THEN regex_tail(s, n + 1)
    ELSE regex_from(s, n + 1)

regex_match(s) == regex_from(s, 1)

\* match.group(name)
group(m, name) ==
    m[CASE name = "file" -> 1 [] name = "line" -> 2 [] name = "col" -> 3
        [] name = "error" -> 4 [] name = "warning" -> 5 [] name = "message" -> 6]

\* int(s) for a string of digits.
DigitValue(c) ==
    CASE c = "0" -> 0 [] c = "1" -> 1 [] c = "2" -> 2 [] c = "3" -> 3 [] c = "4" -> 4
      [] c = "5" -> 5 [] c = "6" -> 6 [] c = "7" -> 7 [] c = "8" -> 8 [] c = "9" -> 9

RECURSIVE int(_)
int(s) == IF s = << >> THEN 0 ELSE 10 * int(SubSeq(s, 1, Len(s) - 1)) + DigitValue(s[Len(s)])

(***************************************************************************)
(* Linter.split_match of the framework, which Rust.split_match ends with:  *)
(* (match, line, col, error, warning, message, near), with line and col    *)
(* counted from 0, and all of it empty when match is None.                 *)
(***************************************************************************)
super_split_match(m) ==
    IF m # None
    THEN <<m, int(group(m, "line")) - 1, int(group(m, "col")) - 1,
           group(m, "error"), group(m, "warning"), group(m, "message"), None>>
    ELSE <<None, None, None, None, None, << >>, None>>

(***************************************************************************)
(* Rust.split_match.  os.path.dirname(None) raises TypeError; raised says  *)
(* whether the call ended that way, ret is what it returned otherwise.     *)
(***************************************************************************)
Raised == [raised |-> TRUE, ret |-> None]

Returned(t) == [raised |-> FALSE, ret |-> t]

\* Linter.split_match as inherited, with no filtering by file.
split_match_no_filter(self, m, wd) == Returned(super_split_match(m))

split_match(self, m, wd) ==
    LET matched_file == IF m # None THEN group(m, "file") ELSE None
    IN  IF Truthy(matched_file)
        THEN IF self.use_cargo
             THEN IF self.cargo_config = None THEN Raised
                  ELSE LET working_dir == dirname(self.cargo_config)
                       IN  IF ~is_current_file(self, working_dir, matched_file, wd)
                           THEN Returned(super_split_match(None))
                           ELSE Returned(super_split_match(m))
             ELSE IF self.use_crate_root
             THEN IF self.crate_root = None THEN Raised
                  ELSE LET working_dir == dirname(self.crate_root)
                       IN  IF ~is_current_file(self, working_dir, matched_file, wd)
                           THEN Returned(super_split_match(None))
                           ELSE Returned(super_split_match(m))
             ELSE Returned(super_split_match(m))
        ELSE Returned(super_split_match(m))

(***************************************************************************)
(* The inputs: settings, file system, edited file, working directory and   *)
(* lines of tool output.                                                   *)
(***************************************************************************)
\* The file being edited, and its name through the link /lnk -> /proj.
FooRs == SrcDir \o Sep \o c_foo
FooRsViaLink == LnkDir \o Sep \o c_src \o Sep \o c_foo

Cwds == {Root, ProjDir}

\* The files that may or may not exist; lib.rs lies nearer to the edited file than main.rs.
CandidateFiles ==
    {ProjDir \o Sep \o CargoToml, ProjDir \o Sep \o MainRs, SrcDir \o Sep \o LibRs}

\* The 'crate-root' setting: unset, empty, absolute, a bare file name, relative.
CrateRootSettings ==
    {None, << >>, ProjDir \o Sep \o MainRs, MainRs, c_src \o Sep \o MainRs}

SettingsSet ==
    {("use-cargo" :> uc) @@ ("use-crate-root" :> ur) @@ ("crate-root" :> cr) :
        uc \in BOOLEAN, ur \in BOOLEAN, cr \in CrateRootSettings}

\* The paths the tool reports.
ReportedPaths ==
    {c_src \o Sep \o c_foo,
     c_foo,
     FooRsViaLink,
     c_src \o Sep \o c_bar,
     TmpDir \o Sep \o c_t}

kw_note == <<"n", "o", "t", "e">>

DiagnosticKeywords == {kw_error, kw_fatal, kw_warning}

Keywords == DiagnosticKeywords \cup {kw_note}

msg_text == <<"b", "a", "d", " ", "t", "y", "p", "e">>

\* The fields of the diagnostic lines the tool prints.
Shapes ==
    {[path |-> p, line |-> <<"3">>, col |-> <<"1", "5">>, kw |-> kw_error, msg |-> msg_text] :
        p \in ReportedPaths}
    \cup
    {[path |-> c_src \o Sep \o c_foo, line |-> <<"3">>, col |-> <<"1", "5">>, kw |-> k,
      msg |-> msg_text] : k \in Keywords}

\* <path>:<line>:<col>: <endline>:<endcol> <keyword>: <message>
Format(r) ==
    r.path \o <<":">> \o r.line \o <<":">> \o r.col \o <<":", " ">> \o r.line \o <<":">>
    \o <<"2", "0">> \o <<" ">> \o r.kw \o <<":", " ">> \o r.msg

\* Output that is no diagnostic: progress, a position without its span, a
\* diagnostic without a message.
Chatter ==
    {<<"C", "o", "m", "p", "i", "l", "i", "n", "g", " ">> \o c_proj,
     c_foo \o <<":", "3", ":", "1", ":", " ">> \o kw_error \o <<":", " ">> \o msg_text,
     c_foo \o <<":", "3", ":", "1", ":", " ", "3", ":", "2", " ">> \o kw_error \o <<":", " ">>}

Lines == {Format(r) : r \in Shapes} \cup Chatter

(***************************************************************************)
(* The state machine.                                                      *)
(***************************************************************************)
Self ==
    [use_cargo |-> use_cargo, use_crate_root |-> use_crate_root,
     cargo_config |-> cargo_config, crate_root |-> crate_root,
     tempfile_suffix |-> tempfile_suffix, filename |-> filename]

NoResult == [raised |-> FALSE, ret |-> None]

NoSettings == ("use-cargo" :> FALSE) @@ ("use-crate-root" :> FALSE) @@ ("crate-root" :> None)

Init ==
    /\ use_cargo = FALSE
    /\ use_crate_root = FALSE
    /\ cargo_config = None
    /\ crate_root = None
    /\ tempfile_suffix = SuffixRs
    /\ filename = FooRs
    /\ settings = NoSettings
    /\ files = {}
    /\ cwd = Root
    /\ pc = "idle"
    /\ ran = NotRun
    /\ nlines = 0
    /\ line = << >>
    /\ result = NoResult

\* regex.match(l) for each line of output the model feeds in.
Matches == [l \in Lines |-> regex_match(l)]

\* The framework starts a lint pass: Rust.run(cmd, code).  The view's settings,
\* the file system and the editor's working directory are by then whatever the
\* user and the system have made them.
Run ==
    /\ pc = "idle"
    /\ settings' \in SettingsSet
    /\ files' \in SUBSET CandidateFiles
    /\ cwd' \in Cwds
    /\ \E r \in {run(Self, RustcCmd, settings', files')} :
          /\ use_cargo' = r.self.use_cargo
          /\ use_crate_root' = r.self.use_crate_root
          /\ cargo_config' = r.self.cargo_config
          /\ crate_root' = r.self.crate_root
          /\ tempfile_suffix' = r.self.tempfile_suffix
          /\ ran' = r.ret
    /\ pc' = "lines"
    /\ nlines' = 0
    /\ line' = << >>
    /\ result' = NoResult
    /\ UNCHANGED filename

\* The framework matches the next line of output and calls Rust.split_match.
FindErrors ==
    /\ pc = "lines"
    /\ nlines < MaxLines
    /\ \E l \in Lines :
          /\ line' = l
          /\ result' = split_match(Self, Matches[l], cwd)
    /\ nlines' = nlines + 1
    /\ pc' = IF result'.raised THEN "raised" ELSE "lines"
    /\ UNCHANGED <<use_cargo, use_crate_root, cargo_config, crate_root, tempfile_suffix,
                   settings, files, filename, cwd, ran>>

\* The pass ends: the output is exhausted, or the exception has propagated.  What
\* the pass read and produced is forgotten; the object's fields stay.
Finish ==
    /\ pc \in {"lines", "raised"}
    /\ pc' = "idle"
    /\ ran' = NotRun
    /\ nlines' = 0
    /\ line' = << >>
    /\ result' = NoResult
    /\ settings' = NoSettings
    /\ files' = {}
    /\ cwd' = Root
    /\ UNCHANGED <<use_cargo, use_crate_root, cargo_config, crate_root, tempfile_suffix,
                   filename>>

Next == Run \/ FindErrors \/ Finish

Spec == Init /\ [][Next]_vars

(***************************************************************************)
(* What a pass did, read off the state.                                    *)
(***************************************************************************)
InPass == pc # "idle"

\* The three strategies, told apart by what run executed.
ManifestBuild == ran.call = "communicate" /\ ran.argv[1] = <<"cargo">>
EntryPointBuild == ran.call = "communicate" /\ ran.argv[1] = <<"rustc">>
SingleFileBuild == ran.call = "tmpfile"

\* The file the selected build was pointed at, and the build's working directory.
BuildTarget == ran.argv[Len(ran.argv)]
BuildDir == dirname(BuildTarget)

\* A line has been handed to split_match; the regex matched it.
LineSeen == InPass /\ nlines > 0
LineMatched == LineSeen /\ regex_match(line) # None
ReportedFile == group(regex_match(line), "file")

Decision(res) ==
    IF res.raised THEN "raised"
    ELSE IF res.ret[1] = None THEN "dropped"
    ELSE "kept"

\* The working directory of the build run selected; the single-file build
\* compiles the temporary file where it lies.
StrategyDir == IF SingleFileBuild THEN TmpDir ELSE BuildDir

\* path, joined onto dir and canonicalised, is the edited file.
SameFile(dir, path) == realpath(join(dir, path), cwd) = realpath(filename, cwd)

\* The working directory split_match hands to is_current_file.
SuppliedDir == IF use_cargo THEN dirname(cargo_config) ELSE dirname(crate_root)

\* Working directories: absolute, through the link, empty and relative.
WorkingDirs == {Root, ProjDir, SrcDir, LnkDir, << >>, c_src}

\* The nearest of /proj/src, /proj and / that holds a file called name.
UpwardFrom(dirs, name) ==
    IF dirs = << >> THEN None
    ELSE LET hit == {i \in 1..Len(dirs) : dirs[i] \o name \in files}
         IN  IF hit = {} THEN None
             ELSE dirs[CHOOSE i \in hit : \A j \in hit : i <= j] \o name

Upward(name) == UpwardFrom(<<SrcDir \o Sep, ProjDir \o Sep, Root>>, name)

\* The crate root, by the order override, main.rs, lib.rs, none.
ExpectedCrateRoot ==
    IF settings["crate-root"] \notin {None, << >>} THEN settings["crate-root"]
    ELSE IF Upward(MainRs) # None THEN Upward(MainRs)
    ELSE Upward(LibRs)

WantManifest == settings["use-cargo"] /\ Upward(CargoToml) # None
WantEntryPoint == ~WantManifest /\ settings["use-crate-root"] /\ ExpectedCrateRoot # None

(***************************************************************************)
(* C1.  run selects exactly one strategy, by strict precedence: the        *)
(* manifest build iff use-cargo is set and Cargo.toml is found; otherwise  *)
(* the entry-point build iff use-crate-root is set and a crate root is     *)
(* located; otherwise the single-file build.                               *)
(***************************************************************************)
C1_Precedence ==
    InPass =>
        /\ ManifestBuild <=> WantManifest
        /\ EntryPointBuild <=> WantEntryPoint
        /\ SingleFileBuild <=> (~WantManifest /\ ~WantEntryPoint)
        /\ ManifestBuild =>
              ran.argv = << <<"cargo">>, <<"build">>, <<"--manifest-path">>,
                            Upward(CargoToml) >>
        /\ EntryPointBuild => ran.argv = Append(RustcCmd, ExpectedCrateRoot)
        /\ SingleFileBuild => ran.argv = RustcCmd

\* Both flags set, manifest and crate root both discoverable: the manifest build.
C1_Witness ==
    /\ InPass
    /\ settings["use-cargo"] /\ settings["use-crate-root"]
    /\ Upward(CargoToml) # None /\ ExpectedCrateRoot # None
    /\ ManifestBuild

(***************************************************************************)
(* C5.  locate_crate_root follows the order override, main.rs, lib.rs,     *)
(* none: whenever run called it, crate_root is the non-empty setting       *)
(* (existing or not), else the main.rs found upward, else the lib.rs found *)
(* upward, else None.                                                      *)
(***************************************************************************)
C5_LocatorOrder ==
    (InPass /\ use_crate_root /\ ~ManifestBuild) => crate_root = ExpectedCrateRoot

\* main.rs and lib.rs both discoverable, lib.rs the nearer: main.rs is returned.
C5_Witness ==
    /\ InPass /\ use_crate_root /\ ~ManifestBuild
    /\ settings["crate-root"] = None
    /\ Upward(MainRs) # None /\ Upward(LibRs) # None
    /\ crate_root = ProjDir \o Sep \o MainRs

(***************************************************************************)
(* C6.  A line yields a diagnostic exactly when it has the shape           *)
(* <path>:<line>:<col>: <endline>:<endcol> <keyword>: <message> with the   *)
(* keyword error, fatal error or warning; its file, line, column and       *)
(* message are those of the line; it is Error-class iff the keyword is     *)
(* error or fatal error and Warning-class iff it is warning, exactly one   *)
(* of the two; any other line yields nothing, raises nothing and leaves    *)
(* the pass parsing.                                                       *)
(***************************************************************************)
C6_Grammar ==
    LineSeen =>
        LET m == regex_match(line)
            shaped == {r \in Shapes : line = Format(r) /\ r.kw \in DiagnosticKeywords}
        IN  /\ m # None <=> shaped # {}
            /\ \A r \in shaped :
                  /\ group(m, "file") = r.path
                  /\ group(m, "line") = r.line
                  /\ group(m, "col") = r.col
                  /\ group(m, "message") = r.msg
                  /\ group(m, "error") # None <=> r.kw \in {kw_error, kw_fatal}
                  /\ group(m, "warning") # None <=> r.kw = kw_warning
                  /\ group(m, "error") = None <=> group(m, "warning") # None
            /\ m = None => (Decision(result) = "dropped" /\ pc = "lines")

\* A 'fatal error' line is kept as an Error-class diagnostic.
C6_Witness ==
    /\ LineMatched
    /\ group(regex_match(line), "error") = kw_fatal
    /\ Decision(result) = "kept"
    /\ result.ret[4] = kw_fatal /\ result.ret[5] = None

(***************************************************************************)
(* C10.  Whenever run selects the single-file build the temporary file is  *)
(* made with suffix 'rs', whatever an earlier pass left in                 *)
(* tempfile_suffix; and after run tempfile_suffix is '-' exactly when the  *)
(* manifest or the entry-point build was selected.                         *)
(***************************************************************************)
C10_Suffix ==
    InPass =>
        /\ SingleFileBuild => ran.suffix = SuffixRs
        /\ tempfile_suffix = SuffixDash <=> (ManifestBuild \/ EntryPointBuild)
        /\ tempfile_suffix \in {SuffixDash, SuffixRs}

\* A single-file pass on an object whose cargo_config an earlier manifest
\* build, which set the suffix to '-', has left behind.
C10_Witness ==
    /\ InPass /\ SingleFileBuild
    /\ ~use_cargo /\ cargo_config # None
    /\ ran.suffix = SuffixRs

(***************************************************************************)
(* C9.  A pass is decided by its own inputs alone: the strategy it selects *)
(* and the keep/drop decision of split_match for each of its lines are     *)
(* those of the same pass made first on a fresh object, whatever earlier   *)
(* passes left in use_cargo, use_crate_root, cargo_config and crate_root.  *)
(***************************************************************************)
C9_Stateless ==
    InPass =>
        LET fresh == run(ClassDefaults(filename), RustcCmd, settings, files)
        IN  /\ ran = fresh.ret
            /\ LineSeen =>
                  Decision(result) =
                      Decision(split_match(fresh.self, regex_match(line), cwd))

\* An entry-point pass that filters a line while cargo_config still holds the
\* manifest of an earlier pass.
C9_Witness ==
    /\ LineMatched /\ EntryPointBuild
    /\ ~use_cargo /\ cargo_config # None
    /\ Decision(result) = "dropped"

(***************************************************************************)
(* C2.  As claimed: under every strategy, the single-file build included   *)
(* (its working directory is that of the temporary file), every diagnostic *)
(* split_match lets through reports a path that, resolved against the      *)
(* build's working directory, is the edited file.                          *)
(***************************************************************************)
C2_EveryStrategy ==
    (LineSeen /\ Decision(result) = "kept") => SameFile(StrategyDir, result.ret[1][1])

(***************************************************************************)
(* C2, amended.  When run selected the manifest or the entry-point build,  *)
(* every diagnostic split_match lets through reports a path that, joined   *)
(* onto the directory of the file the build was pointed at (Cargo.toml or  *)
(* the crate root) and canonicalised, is the edited file.                  *)
(***************************************************************************)
C2_FilteredStrategies ==
    (LineSeen /\ Decision(result) = "kept" /\ (ManifestBuild \/ EntryPointBuild))
        => SameFile(BuildDir, result.ret[1][1])

\* A manifest build whose diagnostic for src/foo.rs is kept.
C2_Witness ==
    /\ LineSeen /\ ManifestBuild
    /\ Decision(result) = "kept"
    /\ result.ret[1][1] = c_src \o Sep \o c_foo

(***************************************************************************)
(* C3.  As claimed: split_match never raises, whatever the settings and    *)
(* the file system, also after selection fell back to the next strategy.   *)
(***************************************************************************)
C3_NeverRaises == pc # "raised" /\ ~result.raised

(***************************************************************************)
(* C4.  As claimed: under the manifest and the entry-point build,          *)
(* split_match keeps a matched diagnostic iff is_current_file holds with   *)
(* the directory of the selected build's file as working directory.        *)
(***************************************************************************)
C4_KeptIffCurrent ==
    (LineMatched /\ (ManifestBuild \/ EntryPointBuild)) =>
        (Decision(result) = "kept" <=> is_current_file(Self, BuildDir, ReportedFile, cwd))

(***************************************************************************)
(* C7.  As claimed: for the working directory split_match supplies, the    *)
(* result of is_current_file is the same in every working directory of the *)
(* editor process.                                                         *)
(***************************************************************************)
C7_CwdIndependent ==
    (LineMatched /\ (ManifestBuild \/ EntryPointBuild) /\ ~result.raised) =>
        \A c \in Cwds :
            is_current_file(Self, SuppliedDir, ReportedFile, c)
                = is_current_file(Self, SuppliedDir, ReportedFile, cwd)

(***************************************************************************)
(* C8.  As claimed: for the working directory wd that split_match supplies *)
(* and a relative reported path p, is_current_file(wd, p) equals           *)
(* is_current_file(wd, join(wd, p)); and for an absolute reported path the *)
(* result is the same for every working directory.                         *)
(***************************************************************************)
C8_PathEquivalence ==
    (LineMatched /\ (ManifestBuild \/ EntryPointBuild) /\ ~result.raised) =>
        /\ ~isabs(ReportedFile) =>
              is_current_file(Self, SuppliedDir, ReportedFile, cwd)
                  = is_current_file(Self, SuppliedDir, join(SuppliedDir, ReportedFile), cwd)
        /\ isabs(ReportedFile) =>
              \A w \in WorkingDirs :
                  is_current_file(Self, w, ReportedFile, cwd)
                      = is_current_file(Self, SuppliedDir, ReportedFile, cwd)

====
